---- MODULE Spec2Model ----
(***************************************************************************)
(* PySteg (src/main.py): least-significant-bit steganography.  encode      *)
(* embeds a text in a copy of an image, decode reads the length header     *)
(* back.  The image library's pixel grid is modelled as a function from    *)
(* coordinates <<x, y>> to <<r, g, b>> triples.                            *)
(***************************************************************************)
EXTENDS Integers, Sequences, FiniteSets

\* ---------------------------------------------------------------- bounds
MaxWidth == 14
MaxHeight == 3
MaxTextLen == 2

\* ------------------------------------------------------ program constants
TEXT_LEN_PIXELS == 11
MASK == 1
CAPACITY_RESERVED == 11
CHANNELS == 3
BYTE_BITS == 8

\* ----------------------------------------------------------------- inputs
\* Code points offered as characters: a blank and 'a'.
Alphabet == {32, 97}

\* Characters str.strip() removes.
Whitespace == {9, 10, 11, 12, 13, 28, 29, 30, 31, 32, 133, 160}

Texts == UNION {[1..n -> Alphabet] : n \in 0..MaxTextLen}

\* File name endings of the path handed to encode / decode.
Exts == {"jpg", "jpeg", "png"}

\* Source pictures.  The red and green channels are even in every fill so
\* that the 33 header bits of an untouched picture, once their trailing
\* zeros are trimmed, stay within 31 bits (the range of TLC's integers);
\* the blue channel carries both parities.
Fills == {"black", "light", "ramp"}

FillPixel(fill, x, y) ==
    CASE fill = "black" -> <<0, 0, 0>>
      [] fill = "light" -> <<254, 254, 255>>
      [] OTHER -> <<(100 + 2 * x) % 256, (50 + 6 * y) % 256, (x + 3 * y + 1) % 256>>

Coords(w, h) == (0..(w - 1)) \X (0..(h - 1))

NoImage == [p \in {} |-> <<0, 0, 0>>]

NoneValue == [kind |-> "None", val |-> <<>>]

\* ---------------------------------------------------------- pure helpers
RECURSIVE Bin(_)
\* bin(n)[2:] : the binary digits of n, most significant first.
Bin(n) == IF n < 2 THEN <<n>> ELSE Bin(n \div 2) \o <<n % 2>>

RECURSIVE BinToInt(_)
\* int(s, 2) of a non-empty digit string.
BinToInt(s) ==
    IF Len(s) = 0 THEN 0
    ELSE 2 * BinToInt(SubSeq(s, 1, Len(s) - 1)) + s[Len(s)]

\* 1 << bit
Pow2(bit) == 2 ^ bit

set_bit(value, bit) ==
    IF (value \div Pow2(bit)) % 2 = 1 THEN value ELSE value + Pow2(bit)

clear_bit(value, bit) ==
    IF (value \div Pow2(bit)) % 2 = 1 THEN value - Pow2(bit) ELSE value

\* '00000000'[len(bits):] + bits
PadByte(bits) ==
    IF Len(bits) >= BYTE_BITS THEN bits
    ELSE [k \in 1..(BYTE_BITS - Len(bits)) |-> 0] \o bits

RECURSIVE tobits(_)
tobits(s) ==
    IF s = <<>> THEN <<>> ELSE PadByte(Bin(Head(s))) \o tobits(Tail(s))

\* not text.strip()
IsBlank(s) == \A k \in 1..Len(s) : s[k] \in Whitespace

\* Variant of the capacity limit that reserves no header pixels.
CapacityBitsNoReserve(w, h) == w * h * CHANNELS

\* (num_pixels - 11) * 3
CapacityBits(w, h) == (w * h - CAPACITY_RESERVED) * CHANNELS

\* Variant of the loop count that keeps the bit count undivided.
NumLoopsAsBitCount(n) == n

\* int(len(text_bits) / 3)
NumLoops(n) == n \div 3

\* The index step of the payload loop.
NextIndex(k) == k + 1

\* pixmap[x, y]: the column the pixel grid resolves x to.  A negative x is
\* counted from the right edge once when the library supports it.
ResolveX(x, w, wrap) == IF x < 0 /\ wrap THEN x + w ELSE x

InGrid(x, w, wrap) == ResolveX(x, w, wrap) >= 0 /\ ResolveX(x, w, wrap) < w

\* get_pixels_bin
get_pixels_bin(pixmap, x, y) ==
    << BinToInt(Bin(pixmap[<<x, y>>][1])),
       BinToInt(Bin(pixmap[<<x, y>>][2])),
       BinToInt(Bin(pixmap[<<x, y>>][3])) >>

\* One "if i < len(num_loops) ... else clear_bit" block of the header loop.
HeaderChannel(v, digits, k) ==
    IF k < Len(digits)
    THEN (IF digits[k + 1] = 1 THEN set_bit(v, 0) ELSE clear_bit(v, 0))
    ELSE clear_bit(v, 0)

HeaderAdvance(digits, k) == IF k < Len(digits) THEN k + 1 ELSE k

\* One payload channel.
PayloadChannel(v, b) == IF b = 1 THEN set_bit(v, 0) ELSE clear_bit(v, 0)

RECURSIVE TrailingZeros(_)
\* j of decode's "trim trailing zeros" loop.
TrailingZeros(s) ==
    IF Len(s) = 0 \/ s[Len(s)] = 1 THEN 0
    ELSE 1 + TrailingZeros(SubSeq(s, 1, Len(s) - 1))

\* ------------------------------------------------------------------ state
VARIABLES
    width, height,      \* size of the picture
    ext,                \* file name ending of the input path
    text,               \* text handed to encode (code points), <<>> before the call
    wrapNeg,            \* the pixel grid counts negative x from the right
    before,             \* pixmap_before
    after,              \* pixmap_after
    pc,                 \* position of the running call
    err,                \* exception raised, "" when none
    text_bits,
    num_loops,          \* digit string stored in the header
    i,                  \* index into num_loops
    hx,                 \* x of the header loop
    count,              \* int(num_loops, 2)
    index,
    px, py,             \* x, y of the payload loop
    hdrWritten,         \* pixels assigned by the header loop
    payWritten,         \* pixels assigned by the payload loop
    hdrAfter,           \* the header pixels of pixmap_after as the header loop left them
    src,                \* what decode opened: "input" or "output"
    bits,               \* decode's header digit string
    dx,                 \* x of decode's header loop
    loop_count,
    ret                 \* value returned by decode

encVars == <<text, after, text_bits, num_loops, i, hx, count, index, px, py,
             hdrWritten, payWritten, hdrAfter>>
decVars == <<src, bits, dx, loop_count, ret>>
inVars == <<width, height, ext, wrapNeg, before>>
vars == <<inVars, encVars, decVars, pc, err>>

Init ==
    /\ width \in 1..MaxWidth
    /\ height \in 1..MaxHeight
    /\ ext \in Exts
    /\ text = <<>>
    /\ wrapNeg \in BOOLEAN
    /\ \E fill \in Fills :
          before = [p \in Coords(width, height) |-> FillPixel(fill, p[1], p[2])]
    /\ after = NoImage
    /\ pc = "idle"
    /\ err = ""
    /\ text_bits = <<>>
    /\ num_loops = <<>>
    /\ i = 0
    /\ hx = 0
    /\ count = 0
    /\ index = 0
    /\ px = 0
    /\ py = 0
    /\ hdrWritten = {}
    /\ payWritten = {}
    /\ hdrAfter = NoImage
    /\ src = "none"
    /\ bits = <<>>
    /\ dx = 0
    /\ loop_count = 0
    /\ ret = NoneValue

\* ----------------------------------------------------------------- encode
\* encode(file_path, text) up to the call of encode_text.
Encode ==
    /\ pc = "idle"
    /\ UNCHANGED <<inVars, decVars>>
    /\ UNCHANGED <<num_loops, i, hx, count, index, px, py,
                   hdrWritten, payWritten, hdrAfter>>
    /\ \E t \in Texts :
          /\ text' = t
          /\ IF ext \notin {"jpeg", "jpg"}
             THEN /\ pc' = "enc_raised"
                  /\ err' = "InvalidImageTypeException"
                  /\ UNCHANGED <<after, text_bits>>
             ELSE IF IsBlank(t)
             THEN /\ pc' = "enc_raised"
                  /\ err' = "ValueError: empty text"
                  /\ UNCHANGED <<after, text_bits>>
             ELSE IF Len(tobits(t)) > CapacityBits(width, height)
             THEN /\ pc' = "enc_raised"
                  /\ err' = "ValueError: cannot fit"
                  /\ text_bits' = tobits(t)
                  /\ UNCHANGED after
             ELSE /\ pc' = "enc_text"
                  /\ err' = ""
                  /\ text_bits' = tobits(t)
                  /\ after' = [p \in Coords(width, height) |-> <<0, 0, 0>>]

\* encode_text: num_loops = bin(int(len(text_bits) / 3))[2:]; i = 0
EncodeTextBegin ==
    /\ pc = "enc_text"
    /\ num_loops' = Bin(NumLoops(Len(text_bits)))
    /\ i' = 0
    /\ hx' = 0
    /\ pc' = "enc_header"
    /\ UNCHANGED <<inVars, decVars, err, text, after, text_bits, count, index,
                   px, py, hdrWritten, payWritten, hdrAfter>>

\* One iteration of the header loop; after the last one, the set-up of the
\* payload loop.
EncodeHeaderStep ==
    /\ pc = "enc_header"
    /\ hx < TEXT_LEN_PIXELS
    /\ UNCHANGED <<inVars, decVars, text, text_bits, num_loops, payWritten>>
    /\ IF ~InGrid(width - hx - 1, width, wrapNeg)
       THEN /\ pc' = "enc_raised"
            /\ err' = "IndexError"
            /\ UNCHANGED <<after, i, hx, count, index, px, py, hdrWritten, hdrAfter>>
       ELSE LET x == ResolveX(width - hx - 1, width, wrapNeg)
                y == height - 1
                rgb == get_pixels_bin(before, x, y)
                i1 == HeaderAdvance(num_loops, i)
                i2 == HeaderAdvance(num_loops, i1)
                i3 == HeaderAdvance(num_loops, i2)
                b_bin == HeaderChannel(rgb[3], num_loops, i)
                g_bin == HeaderChannel(rgb[2], num_loops, i1)
                r_bin == HeaderChannel(rgb[1], num_loops, i2)
                written == [after EXCEPT ![<<x, y>>] = <<r_bin, g_bin, b_bin>>]
            IN  /\ after' = written
                /\ hdrWritten' = hdrWritten \cup {<<x, y>>}
                /\ i' = i3
                /\ hx' = hx + 1
                /\ err' = err
                /\ IF hx + 1 = TEXT_LEN_PIXELS
                   THEN /\ pc' = "enc_payload"
                        /\ count' = BinToInt(num_loops)
                        /\ index' = 0
                        /\ px' = 0
                        /\ py' = 0
                        /\ hdrAfter' = [p \in hdrWritten \cup {<<x, y>>} |-> written[p]]
                   ELSE /\ pc' = pc
                        /\ UNCHANGED <<count, index, px, py, hdrAfter>>

\* One step of the nested payload loops at position (px, py).
EncodePayloadStep ==
    /\ pc = "enc_payload"
    /\ UNCHANGED <<inVars, decVars, text, text_bits, num_loops, i, hx, count,
                   hdrWritten, hdrAfter>>
    /\ IF py >= height
       THEN \* both loops are over: return after
            /\ pc' = "enc_done"
            /\ UNCHANGED <<err, after, index, px, py, payWritten>>
       ELSE IF px >= width
       THEN \* the inner loop is exhausted: next row
            /\ py' = py + 1
            /\ px' = 0
            /\ UNCHANGED <<pc, err, after, index, payWritten>>
       ELSE IF index = count
       THEN \* break: leaves the inner loop only
            /\ py' = py + 1
            /\ px' = 0
            /\ UNCHANGED <<pc, err, after, index, payWritten>>
       ELSE IF index + 2 >= Len(text_bits)
       THEN /\ pc' = "enc_raised"
            /\ err' = "IndexError"
            /\ UNCHANGED <<after, index, px, py, payWritten>>
       ELSE LET rgb == get_pixels_bin(before, px, py)
                r_bin == PayloadChannel(rgb[1], text_bits[index + 1])
                g_bin == PayloadChannel(rgb[2], text_bits[index + 2])
                b_bin == PayloadChannel(rgb[3], text_bits[index + 3])
            IN  /\ after' = [after EXCEPT ![<<px, py>>] = <<r_bin, g_bin, b_bin>>]
                /\ payWritten' = payWritten \cup {<<px, py>>}
                /\ index' = NextIndex(index)
                /\ px' = px + 1
                /\ UNCHANGED <<pc, err, py>>

\* ----------------------------------------------------------------- decode
\* pixmap = Image.open(file_path).load(): the input file, or the output.png
\* the driver saved from encode's result.
DecodePixmap == IF src = "output" THEN after ELSE before

\* decode(file_path) on the input file.
DecodeInput ==
    /\ pc = "idle"
    /\ src' = "input"
    /\ UNCHANGED <<inVars, encVars, bits, dx, loop_count, ret>>
    /\ IF ext # "png"
       THEN /\ pc' = "dec_raised"
            /\ err' = "InvalidImageTypeException"
       ELSE /\ pc' = "dec_header"
            /\ err' = ""

\* decode('output.png'): the picture the driver saved from encode's result.
DecodeOutput ==
    /\ pc = "enc_done"
    /\ src' = "output"
    /\ pc' = "dec_header"
    /\ UNCHANGED <<inVars, encVars, err, bits, dx, loop_count, ret>>

\* One iteration of decode's header loop.
DecodeHeaderStep ==
    /\ pc = "dec_header"
    /\ dx < TEXT_LEN_PIXELS
    /\ UNCHANGED <<inVars, encVars, src, loop_count, ret>>
    /\ IF ~InGrid(width - dx - 1, width, wrapNeg)
       THEN /\ pc' = "dec_raised"
            /\ err' = "IndexError"
            /\ UNCHANGED <<bits, dx>>
       ELSE LET rgb == get_pixels_bin(DecodePixmap, ResolveX(width - dx - 1, width, wrapNeg),
                                      height - 1)
            IN  /\ bits' = bits \o <<rgb[3] % (2 * MASK), rgb[2] % (2 * MASK),
                                     rgb[1] % (2 * MASK)>>
                /\ dx' = dx + 1
                /\ UNCHANGED <<pc, err>>

\* Trim the trailing zeros, convert, fall off the end of the function.
DecodeFinish ==
    /\ pc = "dec_header"
    /\ dx = TEXT_LEN_PIXELS
    /\ UNCHANGED <<inVars, encVars, src, bits, dx>>
    /\ LET j == TrailingZeros(bits)
           digits == SubSeq(bits, 1, Len(bits) - j)
       IN  IF digits = <<>>
           THEN /\ pc' = "dec_raised"
                /\ err' = "ValueError: invalid literal"
                /\ UNCHANGED <<loop_count, ret>>
           ELSE /\ pc' = "dec_done"
                /\ loop_count' = BinToInt(digits)
                /\ ret' = NoneValue
                /\ err' = err

Next ==
    \/ Encode
    \/ EncodeTextBegin
    \/ EncodeHeaderStep
    \/ EncodePayloadStep
    \/ DecodeInput
    \/ DecodeOutput
    \/ DecodeHeaderStep
    \/ DecodeFinish

Spec == Init /\ [][Next]_vars

\* ------------------------------------------------- vocabulary of the claims
Lsb(v) == v % 2

HEADER_BITS == TEXT_LEN_PIXELS * CHANNELS

\* The pixel the k-th header iteration addresses.
HeaderCoord(k) == <<ResolveX(width - 1 - k, width, wrapNeg), height - 1>>

\* The 33 header bits of a picture: pixels (width-1-k, height-1), k = 0..10,
\* each read in the order B, G, R.
HeaderRead(pixmap) ==
    [j \in 1..HEADER_BITS |->
        Lsb(pixmap[HeaderCoord((j - 1) \div 3)][3 - ((j - 1) % 3)])]

HeaderAllZero(pixmap) ==
    \A k \in 0..(TEXT_LEN_PIXELS - 1) :
        /\ InGrid(width - 1 - k, width, wrapNeg)
        /\ \A c \in 1..3 : Lsb(pixmap[HeaderCoord(k)][c]) = 0

RECURSIVE IntToBits(_, _)
\* Big-endian digits of n, left-padded with zeros to wd digits.
IntToBits(n, wd) ==
    IF wd = 0 THEN <<>> ELSE IntToBits(n \div 2, wd - 1) \o <<n % 2>>

\* The pixel that is number q in row-major order.
RowMajor(q) == <<q % width, q \div width>>

EncodeOffered == ext \in {"jpeg", "jpg"} /\ ~IsBlank(text)

\* ----------------------------------------------------------------- claims

\* C1: decode of the picture encode returned gives back exactly the text, for
\* every non-blank text of code points 0..255 that fits the picture.
C1_RoundTrip ==
    (pc = "dec_done" /\ src = "output" /\ \A k \in 1..Len(text) : text[k] <= 255)
        => ret = [kind |-> "str", val |-> text]

\* C2: for a non-blank text, encode returns a picture if and only if the
\* payload bit count is at most (w*h - 11) * 3; above the limit it raises the
\* capacity error and returns no picture.
C2_CapacityBoundary ==
    (EncodeOffered /\ pc \in {"enc_done", "enc_raised"})
        => /\ (pc = "enc_done") <=> (Len(tobits(text)) <= (width * height - 11) * 3)
           /\ Len(tobits(text)) > (width * height - 11) * 3
                 => (err = "ValueError: cannot fit" /\ after = NoImage)

\* C3: the picture encode returns has the size of the source, every pixel
\* written by neither loop has the source's value, and every written channel
\* agrees with the source in bits 1..7.
C3_FrameOfEncode ==
    pc = "enc_done"
        => /\ DOMAIN after = DOMAIN before
           /\ \A p \in DOMAIN before :
                 IF p \in hdrWritten \cup payWritten
                 THEN \A c \in 1..3 : after[p][c] \div 2 = before[p][c] \div 2
                 ELSE after[p] = before[p]

\* C4: after a successful encode the 33 header bits are the big-endian binary
\* representation of the payload bit count, right-justified, zero-padded on
\* the left.
C4_HeaderHoldsBitCount ==
    pc = "enc_done" => HeaderRead(after) = IntToBits(Len(text_bits), HEADER_BITS)

\* C5: after a successful encode payload bit k is bit 0 of channel k mod 3
\* (R, G, B) of the pixel number k div 3 in row-major order, for every k.
C5_PayloadPlacement ==
    pc = "enc_done"
        => \A k \in 0..(Len(text_bits) - 1) :
              /\ RowMajor(k \div 3) \in payWritten
              /\ Lsb(after[RowMajor(k \div 3)][(k % 3) + 1]) = text_bits[k + 1]

\* C6: decode of a picture whose 33 header bits are all 0 returns the empty
\* string and raises nothing.
C6_DecodeNoHiddenText ==
    (pc \in {"dec_done", "dec_raised"} /\ err # "InvalidImageTypeException"
        /\ HeaderAllZero(DecodePixmap))
        => (pc = "dec_done" /\ err = "" /\ ret = [kind |-> "str", val |-> <<>>])

\* C7: the payload loop writes none of the pixels the header loop wrote, and
\* the header pixels of the returned picture are as the header loop left them.
C7_PayloadSparesHeader ==
    /\ hdrWritten \cap payWritten = {}
    /\ hdrAfter # NoImage => \A p \in hdrWritten : after[p] = hdrAfter[p]

\* A returned picture too small for one more character, with 11 distinct
\* header pixels and a payload written.
C7_Witness ==
    /\ pc = "enc_done"
    /\ Cardinality(hdrWritten) = TEXT_LEN_PIXELS
    /\ Cardinality(payWritten) = count
    /\ count > 0
    /\ CapacityBits(width, height) - Len(text_bits) < BYTE_BITS

\* C8: the count decode derives from the header of encode's output equals the
\* count the encoder stored there.
C8_HeaderAgreement ==
    (pc = "dec_done" /\ src = "output") => loop_count = count

\* C9: once the capacity check has passed, the 11 header coordinates
\* (width-1-i, height-1) lie inside the grid and name 11 distinct pixels.
C9_HeaderCoordsInGrid ==
    pc = "enc_text"
        => /\ \A k \in 0..(TEXT_LEN_PIXELS - 1) :
                 0 <= width - 1 - k /\ width - 1 - k < width
           /\ Cardinality({HeaderCoord(k) : k \in 0..(TEXT_LEN_PIXELS - 1)})
                 = TEXT_LEN_PIXELS

\* C10: at every iteration of the payload loop the reads text_bits[index],
\* [index+1], [index+2] are inside text_bits and the pixel written is inside
\* the picture; the loop writes exactly one pixel per index and none once
\* index has reached the count stored in the header.
C10_PayloadLoopInBounds ==
    /\ (pc = "enc_payload" /\ py < height /\ px < width /\ index # count)
          => /\ index >= 0 /\ index + 2 <= Len(text_bits) - 1
             /\ <<px, py>> \in DOMAIN after
    /\ pc \in {"enc_payload", "enc_done"}
          => (index <= count /\ Cardinality(payWritten) = index)
    /\ pc = "enc_done" => index = count
    /\ (pc = "enc_raised" /\ err = "IndexError") => hx < TEXT_LEN_PIXELS

\* The payload loop has written count >= 2 pixels and meets its break.
C10_Witness ==
    /\ pc = "enc_payload"
    /\ index = count
    /\ count >= 2
    /\ py < height
    /\ Cardinality(payWritten) = count

====
